---- MODULE Spec2Model ----
(***************************************************************************)
(* Playback engine and pointer-input mapper of the tape-ticker reader      *)
(* (ReaderView in src/App.tsx).                                            *)
(*                                                                         *)
(* Units.  Timestamps (performance.now(), the requestAnimationFrame        *)
(* timestamp) are counted in ticks of 10 ms.  accumulatedTime and the      *)
(* per-word dwell are counted in microseconds (fixed point for the         *)
(* doubles of the source).  Pointer coordinates are counted in quarter     *)
(* pixels, so that dx * 2 can fall between two integers and Math.round     *)
(* has work to do.  Word weights are counted in tenths (2.2 -> 22).        *)
(***************************************************************************)
EXTENDS Integers, Sequences, FiniteSets, TLC

VARIABLES
    engine,        \* engine.current (useRef record)
    dragRef,       \* dragRef.current: NoDrag (null) or the DragSession
    ui,            \* React state of ReaderView written by the handlers and the loop
    showSettings,  \* React state: settings modal open (it stays closed here)
    showChapters,  \* React state: contents modal open
    settings,      \* AppSettings consulted by the handlers and the loop
    words,         \* the word sequence of the open book
    now,           \* performance.now(), in ticks
    frameTime,     \* timestamp of the latest animation frame, in ticks
    calls,         \* onUpdateProgress calls made by the latest handler or frame
    frame,         \* locals of the latest run of loop
    lastOp,        \* what the latest handler or frame did
    priorIndex,    \* engine.wordIndex before the latest Start, while nothing but
                   \* that Start's Stop has followed it; -1 otherwise
    nEvents,       \* number of pointer events handled so far
    weighing,      \* a token handed to getWordWeight and the weight returned
                   \* for it (0 while it has not been weighed)
    storage        \* the key-value store behind the Progress Sink: "ok" while
                   \* db.set resolves, "failing" while it rejects

readerVars == <<engine, dragRef, ui, showSettings, showChapters, settings, words, now, frameTime,
                calls, frame, lastOp, priorIndex, nEvents, storage>>

vars == <<readerVars, weighing>>

----------------------------------------------------------------------------
\* Program constants

MIN_WPM == 100
MAX_WPM == 1500
MIN_FONT_SIZE == 32
MAX_FONT_SIZE == 128
RAMP_UP_DURATION_MS == 1500
REWIND_COUNT == 3
INITIAL_WPM == 400
INITIAL_FONT_SIZE == 64
AUTO_REV_DELAY_MS == 2000
AUTO_REV_DURATION_MS == 3000

\* The same durations in ticks of 10 ms
RampTicks == RAMP_UP_DURATION_MS \div 10
RevDelayTicks == AUTO_REV_DELAY_MS \div 10
RevDurationTicks == AUTO_REV_DURATION_MS \div 10
\* microseconds in one tick
TickMicros == 10 * 1000

----------------------------------------------------------------------------
\* Bounds of the model

\* no frame is stamped later than this (ticks)
MaxTime == 350
\* at most this many pointer events are handled in one run
MaxEvents == 4
\* in LiveSpec pointer events arrive only up to this time (ticks)
InputDeadline == 51
\* in LiveSpec at most this many pointer events are handled in one run
LiveMaxEvents == 3
\* in LiveSpec frames keep arriving until this time (ticks)
LiveMaxTime == 2200
\* in ChapterSpec frames keep arriving until this time (ticks)
ChapterMaxTime == 250
\* in FontSpec frames keep arriving until this time (ticks)
FontMaxTime == 150
\* in FontSpec this many pointer events are handled
FontMaxEvents == 3
\* in RevSpec frames keep arriving until this time (ticks)
RevMaxTime == 700

\* time between one frame and the next (ticks): 1 s, 2.97 s
DtSet == {100, 297}
\* how far performance.now() in a pointer-down handler may lie past the
\* timestamp of the refresh it runs in (ticks)
LagSet == {0, 1}
\* where the pointer goes down (quarter pixels)
DownPos == [x |-> 400, y |-> 400]
\* where a drag-move may take it, relative to DownPos (quarter pixels):
\* -600 px, -50.25 px and 32.5 px up, +20 px, +50 px, +600 px
MoveSet == { [dx |-> -2400, dy |-> 0], [dx |-> -201, dy |-> -130],
             [dx |-> 80, dy |-> 0], [dx |-> 200, dy |-> 0], [dx |-> 2400, dy |-> 0] }

BookId == "book"
NoDrag == [open |-> FALSE]

Max(a, b) == IF a >= b THEN a ELSE b
Min(a, b) == IF a <= b THEN a ELSE b

----------------------------------------------------------------------------
\* Words.  A token is a sequence of one-character strings.

Tok_the == <<"t", "h", "e">>
Tok_cat == <<"c", "a", "t", ",">>
Tok_table == <<"t", "a", "b", "l", "e">>
Tok_information == <<"i", "n", "f", "o", "r", "m", "a", "t", "i", "o", "n">>
Tok_Hello == <<"H", "e", "l", "l", "o", ".">>

\* Tokens handed to getWordWeight on its own: the empty token, the tokens above,
\* and runs of up to MaxBody letters, bare or behind characters the pattern
\* strips, closed by a letter, a digit, a punctuation mark or a stripped character
MaxBody == 9
Body(n) == [i \in 1..n |-> "a"]
TokenFronts == { <<>>, <<"'">>, <<"-", "-">> }
TokenLasts == {".", "!", "?", ",", ";", ":", "a", "7", "-", "'"}
Tokens ==
    {<<>>, Tok_the, Tok_cat, Tok_table, Tok_information, Tok_Hello}
    \cup { front \o Body(n) \o <<c>> :
             front \in TokenFronts, n \in 0..MaxBody, c \in TokenLasts }

Books == { <<Tok_Hello>>,
           <<Tok_the, Tok_cat, Tok_table, Tok_information, Tok_Hello>> }

Letters == {"a", "b", "c", "e", "f", "h", "i", "l", "m", "n", "o", "r", "t", "H"}
Digits == {"7"}
KeptPunct == {".", ",", "!", "?", ";", ":"}

\* word.replace(/[^a-zA-Z0-9.,!?;:]/g, '')
RECURSIVE CleanWord(_)
CleanWord(word) ==
    IF word = <<>> THEN <<>>
    ELSE IF Head(word) \in Letters \cup Digits \cup KeptPunct
         THEN <<Head(word)>> \o CleanWord(Tail(word))
         ELSE CleanWord(Tail(word))

\* a weight that looks at the length before the last character
getWordWeightLengthFirst(word) ==
    IF word = <<>> THEN 10
    ELSE LET cleanWord == CleanWord(word)
             lastChar == word[Len(word)]
         IN IF Len(cleanWord) < 4 THEN 8
            ELSE IF Len(cleanWord) > 8 THEN 11
            ELSE IF lastChar \in {".", "!", "?"} THEN 22
            ELSE IF lastChar \in {",", ";", ":"} THEN 15
            ELSE 10

\* getWordWeight, in tenths
getWordWeight(word) ==
    IF word = <<>> THEN 10
    ELSE LET cleanWord == CleanWord(word)
             lastChar == word[Len(word)]
         IN IF lastChar \in {".", "!", "?"} THEN 22
            ELSE IF lastChar \in {",", ";", ":"} THEN 15
            ELSE IF Len(cleanWord) < 4 THEN 8
            ELSE IF Len(cleanWord) > 8 THEN 11
            ELSE 10

----------------------------------------------------------------------------
\* Exact arithmetic within the 32-bit integers of the checker

\* the least integer >= n / d, for n >= 0 and d > 0
CeilDiv(n, d) == (n + d - 1) \div d

\* the least integer >= (y + f) / d for an integer y >= 0 and a fraction
\* 0 <= f < 1 of which only fPositive (f > 0) matters
CeilDivFrac(y, fPositive, d) == IF fPositive THEN (y \div d) + 1 ELSE CeilDiv(y, d)

----------------------------------------------------------------------------
\* The engine.  A machine m is the part of ReaderView the handlers and the
\* loop write: [engine, ui, dragRef, calls].

Machine == [engine |-> engine, ui |-> ui, dragRef |-> dragRef, calls |-> <<>>]

\* the rewind without its clamp at 0
RewindIndexUnclamped(i) == i - REWIND_COUNT

\* no rewind at all
RewindIndexNone(i) == i

\* Math.max(0, state.wordIndex - REWIND_COUNT)
RewindIndex(i) == Max(0, i - REWIND_COUNT)

\* a Stop that does not report the progress
stopPlaybackSilent(m) ==
    IF ~m.engine.isPlaying THEN m
    ELSE LET newIndex == RewindIndex(m.engine.wordIndex)
         IN [m EXCEPT !.engine.isPlaying = FALSE,
                      !.engine.wordIndex = newIndex,
                      !.ui.wordIndex = newIndex,
                      !.ui.isPlaying = FALSE]

\* a Stop without the early return of line 334
stopPlaybackUnguarded(m) ==
    LET newIndex == RewindIndex(m.engine.wordIndex)
    IN [m EXCEPT !.engine.isPlaying = FALSE,
                 !.engine.wordIndex = newIndex,
                 !.ui.wordIndex = newIndex,
                 !.ui.isPlaying = FALSE,
                 !.calls = Append(@, [id |-> BookId, index |-> newIndex])]

\* a Progress Sink that writes synchronously and lets a failed write out
onUpdateProgressThrowsOnFailure == storage = "failing"

\* whether the call onUpdateProgress(book.id, newIndex) throws into its caller.
\* handleUpdateProgress is an async function: whatever fails in it rejects the
\* promise it returns, which stopPlayback drops; and the rejection of db.set is
\* caught and logged inside it.  So the call returns whatever the store does.
onUpdateProgressThrows == FALSE

\* a Stop that puts the target back at the cruise speed
stopPlaybackRestoreCruise(m) ==
    IF ~m.engine.isPlaying THEN m
    ELSE LET newIndex == RewindIndex(m.engine.wordIndex)
         IN [m EXCEPT !.engine.isPlaying = FALSE,
                      !.engine.wordIndex = newIndex,
                      !.engine.targetWPM = m.engine.dragStartWPM,
                      !.ui.wordIndex = newIndex,
                      !.ui.isPlaying = IF onUpdateProgressThrows THEN @ ELSE FALSE,
                      !.calls = Append(@, [id |-> BookId, index |-> newIndex])]

\* stopPlayback; when the call of line 343 throws, line 344 is not reached
stopPlayback(m) ==
    IF ~m.engine.isPlaying THEN m
    ELSE LET newIndex == RewindIndex(m.engine.wordIndex)
         IN [m EXCEPT !.engine.isPlaying = FALSE,
                      !.engine.wordIndex = newIndex,
                      !.ui.wordIndex = newIndex,
                      !.ui.isPlaying = IF onUpdateProgressThrows THEN @ ELSE FALSE,
                      !.calls = Append(@, [id |-> BookId, index |-> newIndex])]

\* a Start that keeps the index where it is
StartIndexKeep(i) == i

\* the index playback starts from: if (state.wordIndex >= words.length - 1) 0
StartIndex(i) == IF i >= Len(words) - 1 THEN 0 ELSE i

\* a Start that opens the drag session at the cruise speed
startPlaybackFromCruise(m, clientX, clientY, t) ==
    LET st == m.engine
        idx == StartIndex(st.wordIndex)
    IN [m EXCEPT !.engine.wordIndex = idx,
                 !.ui.wordIndex = IF idx = st.wordIndex THEN @ ELSE idx,
                 !.engine.isPlaying = TRUE,
                 !.engine.startTime = t,
                 !.engine.lastFrameTime = t,
                 !.engine.accumulatedTime = 0,
                 !.engine.dragStartWPM = st.targetWPM,
                 !.dragRef = [open |-> TRUE, startX |-> clientX, startY |-> clientY,
                              startWPM |-> st.dragStartWPM,
                              startFontSize |-> m.ui.fontSize],
                 !.ui.isPlaying = TRUE]

\* a Start that keeps the dwell accumulated so far
startPlaybackKeepDwell(m, clientX, clientY, t) ==
    LET st == m.engine
        idx == StartIndex(st.wordIndex)
    IN [m EXCEPT !.engine.wordIndex = idx,
                 !.ui.wordIndex = IF idx = st.wordIndex THEN @ ELSE idx,
                 !.engine.isPlaying = TRUE,
                 !.engine.startTime = t,
                 !.engine.lastFrameTime = t,
                 !.engine.dragStartWPM = st.targetWPM,
                 !.dragRef = [open |-> TRUE, startX |-> clientX, startY |-> clientY,
                              startWPM |-> st.targetWPM,
                              startFontSize |-> m.ui.fontSize],
                 !.ui.isPlaying = TRUE]

startPlayback(m, clientX, clientY, t) ==
    LET st == m.engine
        idx == StartIndex(st.wordIndex)
    IN [m EXCEPT !.engine.wordIndex = idx,
                 !.ui.wordIndex = IF idx = st.wordIndex THEN @ ELSE idx,
                 !.engine.isPlaying = TRUE,
                 !.engine.startTime = t,
                 !.engine.lastFrameTime = t,
                 !.engine.accumulatedTime = 0,
                 !.engine.dragStartWPM = st.targetWPM,
                 !.dragRef = [open |-> TRUE, startX |-> clientX, startY |-> clientY,
                              startWPM |-> st.targetWPM,
                              startFontSize |-> m.ui.fontSize],
                 !.ui.isPlaying = TRUE]

\* a pointer-down that starts whatever the policy and the engine's state
handlePointerDownAlwaysStart(m, clientX, clientY, t) ==
    IF showSettings THEN m ELSE startPlayback(m, clientX, clientY, t)

handlePointerDown(m, clientX, clientY, t) ==
    IF showSettings THEN m
    ELSE IF settings.deadman THEN startPlayback(m, clientX, clientY, t)
    ELSE IF m.engine.isPlaying THEN stopPlayback(m)
    ELSE startPlayback(m, clientX, clientY, t)

\* a pointer-up that leaves the drag session open
handlePointerUpKeepSession(m, t) ==
    LET m1 == IF settings.deadman THEN stopPlayback(m) ELSE m
    IN [m1 EXCEPT !.engine.isDragging = FALSE,
                  !.engine.lastDragTime = t]

\* a pointer-up that only ends the drag
handlePointerUpDragOnly(m, t) ==
    [m EXCEPT !.engine.isDragging = FALSE,
              !.engine.lastDragTime = t,
              !.dragRef = NoDrag]

handlePointerUp(m, t) ==
    LET m1 == IF settings.deadman THEN stopPlayback(m) ELSE m
    IN [m1 EXCEPT !.engine.isDragging = FALSE,
                  !.engine.lastDragTime = t,
                  !.dragRef = NoDrag]

\* a clamp that forgets the upper limit
ClampLow(v, lo, hi) == Max(v, lo)

\* Math.min(Math.max(v, lo), hi)
Clamp(v, lo, hi) == Min(Max(v, lo), hi)

\* a newWPM that takes one WPM per pixel
NewWPM2Unscaled(startWPM, dx) ==
    Clamp(2 * startWPM + dx \div 2, 2 * MIN_WPM, 2 * MAX_WPM)

\* newWPM in half WPM: startWPM + dx * 2, dx in quarter pixels, clamped
NewWPM2(startWPM, dx) == Clamp(2 * startWPM + dx, 2 * MIN_WPM, 2 * MAX_WPM)

\* a newFont without its limits
NewFont8Unclamped(startFontSize, dy) == 8 * startFontSize - dy

\* newFont in eighths: startFontSize - dy * 0.5, dy in quarter pixels, clamped
NewFont8(startFontSize, dy) ==
    Clamp(8 * startFontSize - dy, 8 * MIN_FONT_SIZE, 8 * MAX_FONT_SIZE)

\* Math.round of n / d (d > 0): floor(n / d + 1/2)
Round(n, d) == (2 * n + d) \div (2 * d)

\* the comparison of line 420 turned around
AcceleratingReversed(newWPM2, startWPM) == newWPM2 < 2 * startWPM

\* a drag that never commits its speed to the cruise setpoint
AcceleratingNever(newWPM2, startWPM) == FALSE

\* newWPM > dragRef.current.startWPM
Accelerating(newWPM2, startWPM) == newWPM2 > 2 * startWPM

\* an early return that looks at the drag session only
MoveDiscardedNoSession(m) == ~m.dragRef.open

\* if (!engine.current.isPlaying || !dragRef.current) return;
MoveDiscarded(m) == ~m.engine.isPlaying \/ ~m.dragRef.open

\* a drag-move that does not mark the drag as in progress
handlePointerMoveNoDragFlag(m, clientX, clientY, t) ==
    IF MoveDiscarded(m) THEN m
    ELSE LET dx == clientX - m.dragRef.startX
             dy == clientY - m.dragRef.startY
             newWPM2 == NewWPM2(m.dragRef.startWPM, dx)
             newFont8 == NewFont8(m.dragRef.startFontSize, dy)
             m1 == [m EXCEPT !.engine.lastDragTime = t,
                             !.ui.fontSize = Round(newFont8, 8)]
         IN IF Accelerating(newWPM2, m.dragRef.startWPM)
            THEN [m1 EXCEPT !.engine.targetWPM = Round(newWPM2, 2),
                            !.engine.dragStartWPM = Round(newWPM2, 2)]
            ELSE [m1 EXCEPT !.engine.targetWPM = Round(newWPM2, 2)]

handlePointerMove(m, clientX, clientY, t) ==
    IF MoveDiscarded(m) THEN m
    ELSE LET dx == clientX - m.dragRef.startX
             dy == clientY - m.dragRef.startY
             newWPM2 == NewWPM2(m.dragRef.startWPM, dx)
             newFont8 == NewFont8(m.dragRef.startFontSize, dy)
             m1 == [m EXCEPT !.engine.isDragging = TRUE,
                             !.engine.lastDragTime = t,
                             !.ui.fontSize = Round(newFont8, 8)]
         IN IF Accelerating(newWPM2, m.dragRef.startWPM)
            THEN [m1 EXCEPT !.engine.targetWPM = Round(newWPM2, 2),
                            !.engine.dragStartWPM = Round(newWPM2, 2)]
            ELSE [m1 EXCEPT !.engine.targetWPM = Round(newWPM2, 2)]

----------------------------------------------------------------------------
\* The contents list (the ReaderView of src/unnamed/part_000, whose engine,
\* handlers and loop are those of src/App.tsx line for line)

\* book.chapters[i].startIndex: parseFile pushes a chapter at words.length
\* before it appends the chapter's words, which are never none; so the first
\* chapter starts at 0 and every chapter starts on a word of the book
ChapterStarts(w) == {i \in {0, 2, Len(w) - 1} : i < Len(w)}

\* a chapter jump made through stopPlayback
selectChapterViaStop(m, startIndex) ==
    stopPlayback([m EXCEPT !.engine.wordIndex = startIndex,
                           !.ui.wordIndex = startIndex])

\* onClick of a chapter button
selectChapter(m, startIndex) ==
    [m EXCEPT !.ui.wordIndex = startIndex,
              !.engine.wordIndex = startIndex,
              !.engine.isPlaying = FALSE,
              !.ui.isPlaying = FALSE,
              !.calls = Append(@, [id |-> BookId, index |-> startIndex])]

----------------------------------------------------------------------------
\* The animation loop

\* Math.min(elapsed / RAMP_UP_DURATION_MS, 1.0) as what is left of the ramp,
\* (1 - rampProgress) * RampTicks
RampRest(elapsed) == RampTicks - Min(elapsed, RampTicks)

\* Math.floor(a * rampEase) for a whole a >= 0, where
\* rampEase = 1 - (1 - rampProgress)^4:  a - ceil(a * n^4 / RampTicks^4) with
\* n = RampRest(elapsed), the quotient taken in two steps of n^2 / RampTicks^2
RampFloor(a, elapsed) ==
    LET nn == RampRest(elapsed) * RampRest(elapsed)
        dd == RampTicks * RampTicks
        q1 == (a * nn) \div dd
        r1 == (a * nn) % dd
        q2 == (r1 * nn) \div dd
        r2 == (r1 * nn) % dd
    IN a - CeilDivFrac(q1 * nn + q2, r2 > 0, dd)

\* revProgress = Math.min((timeSinceDrag - DELAY) / DURATION, 1.0), in ticks
RevProgressTicks(timeSinceDrag) ==
    Min(timeSinceDrag - RevDelayTicks, RevDurationTicks)

\* (cruise - target) * (1 - revEase) = a * n^3 / RevDurationTicks^3, where
\* revEase = 1 - (1 - revProgress)^3 and n = RevDurationTicks - revTicks:
\* [y, f, d] stands for (y + f / RevDurationTicks) / d
RevShortfall(a, revTicks) ==
    LET n == RevDurationTicks - revTicks
        q1 == (a * n) \div RevDurationTicks
        r1 == (a * n) % RevDurationTicks
        q2 == (r1 * n * n) \div RevDurationTicks
        r2 == (r1 * n * n) % RevDurationTicks
    IN [y |-> q1 * n * n + q2, f |-> r2, d |-> RevDurationTicks * RevDurationTicks]

\* an auto-rev that does not wait for the drag to end
AutoRevArmedWhileDragging(st) ==
    settings.autoRev /\ st.targetWPM < st.dragStartWPM

\* settings.autoRev && !state.isDragging && state.targetWPM < state.dragStartWPM
AutoRevArmed(st) ==
    settings.autoRev /\ ~st.isDragging /\ st.targetWPM < st.dragStartWPM

\* timeSinceDrag > AUTO_REV_DELAY_MS
DelayElapsed(timeSinceDrag) == timeSinceDrag > RevDelayTicks

\* a snap that waits for revProgress to pass 1
SnapPastEnd(revTicks) == revTicks > RevDurationTicks

\* revProgress >= 0.99
SnapReached(revTicks) == 100 * revTicks >= 99 * RevDurationTicks

\* effectiveTarget: int is Math.floor of it, whole tells whether it is an integer
EffectiveTarget(st, ts) ==
    IF AutoRevArmed(st) /\ DelayElapsed(ts - st.lastDragTime)
    THEN LET z == RevShortfall(st.dragStartWPM - st.targetWPM,
                               RevProgressTicks(ts - st.lastDragTime))
         IN [int |-> st.dragStartWPM - CeilDivFrac(z.y, z.f > 0, z.d),
             whole |-> z.f = 0 /\ z.y % z.d = 0]
    ELSE [int |-> st.targetWPM, whole |-> TRUE]

\* Math.floor(effectiveTarget * rampEase).  While the ramp lasts effectiveTarget
\* is whole (auto-rev sets in after the ramp: RevOnlyAfterRamp), after it
\* rampEase is 1.
FinalWPM(eff, elapsed) ==
    IF elapsed >= RampTicks THEN eff.int ELSE RampFloor(eff.int, elapsed)

\* a dwell that is weighted whatever the cadence setting
MsForThisWordAlwaysWeighted(currentWPM, currentWord) ==
    (6000 * 1000 * getWordWeight(currentWord)) \div currentWPM

\* 60000 / currentWPM, times the word's weight under cadence; microseconds
MsForThisWord(currentWPM, currentWord) ==
    IF settings.cadence
    THEN (6000 * 1000 * getWordWeight(currentWord)) \div currentWPM
    ELSE (60000 * 1000) \div currentWPM

\* a flag that looks at targetWPM where the code looks at effectiveTarget
IsRevvingOrBrakingByTarget(st, eff) ==
    st.dragStartWPM > 0 /\ st.targetWPM < st.dragStartWPM

\* the flag with its comparison turned around
IsRevvingOrBrakingReversed(st, eff) ==
    st.dragStartWPM > 0 /\ eff.int >= st.dragStartWPM

\* state.dragStartWPM > 0 && effectiveTarget < state.dragStartWPM
IsRevvingOrBraking(st, eff) == st.dragStartWPM > 0 /\ eff.int < st.dragStartWPM

NoFrame == [playing |-> FALSE]

\* the element of a one-element set
Only(S) == CHOOSE x \in S : TRUE

\* the locals of one run of loop while playing (lines 249-291), st being the
\* engine after line 246
FrameLocals(st, timestamp) ==
    LET eff == EffectiveTarget(st, timestamp)
        revving == AutoRevArmed(st) /\ DelayElapsed(timestamp - st.lastDragTime)
    IN [playing |-> TRUE,
        revving |-> revving,
        snapped |-> revving
                    /\ SnapReached(RevProgressTicks(timestamp - st.lastDragTime)),
        effectiveTarget |-> eff,
        finalWPM |-> FinalWPM(eff, timestamp - st.startTime),
        isRevvingOrBraking |-> IsRevvingOrBraking(st, eff)]

\* a frame that adds deltaTime to the dwell before it looks at the speed
playingFrameAccumulateFirst(m, st, deltaTime, f) ==
    LET st1 == [st EXCEPT !.targetWPM = IF f.snapped THEN st.dragStartWPM ELSE @,
                          !.currentWPM = f.finalWPM,
                          !.accumulatedTime = @ + deltaTime * TickMicros]
        m1 == [m EXCEPT !.engine = st1,
                        !.ui.displayWPM = f.finalWPM,
                        !.ui.isBraking = f.isRevvingOrBraking]
    IN IF st1.currentWPM > 0
       THEN LET currentWord == words[st1.wordIndex + 1]
                msForThisWord == MsForThisWord(st1.currentWPM, currentWord)
                acc == st1.accumulatedTime
            IN IF acc >= msForThisWord
               THEN LET nextIndex == st1.wordIndex + 1
                        m3 == [m1 EXCEPT !.engine.accumulatedTime =
                                              acc - msForThisWord]
                    IN IF nextIndex >= Len(words)
                       THEN stopPlayback(m3)
                       ELSE [m3 EXCEPT !.engine.wordIndex = nextIndex,
                                       !.ui.wordIndex = nextIndex]
               ELSE m1
       ELSE m1

\* lines 256-314 of loop with the locals f computed: the machine after them
playingFrame(m, st, deltaTime, f) ==
    LET st1 == [st EXCEPT !.targetWPM = IF f.snapped THEN st.dragStartWPM ELSE @,
                          !.currentWPM = f.finalWPM]
        m1 == [m EXCEPT !.engine = st1,
                        !.ui.displayWPM = f.finalWPM,
                        !.ui.isBraking = f.isRevvingOrBraking]
    IN IF st1.currentWPM > 0
       THEN LET currentWord == words[st1.wordIndex + 1]
                msForThisWord == MsForThisWord(st1.currentWPM, currentWord)
                acc == st1.accumulatedTime + deltaTime * TickMicros
                m2 == [m1 EXCEPT !.engine.accumulatedTime = acc]
            IN IF acc >= msForThisWord
               THEN LET nextIndex == st1.wordIndex + 1
                        m3 == [m2 EXCEPT !.engine.accumulatedTime =
                                              acc - msForThisWord]
                    IN IF nextIndex >= Len(words)
                       THEN stopPlayback(m3)
                       ELSE [m3 EXCEPT !.engine.wordIndex = nextIndex,
                                       !.ui.wordIndex = nextIndex]
               ELSE m2
       ELSE m1

\* a stopped branch that still steps to the next word
stoppedFrameAdvances(m, st) ==
    [m EXCEPT !.engine = [st EXCEPT !.lastFrameTime = 0, !.currentWPM = 0,
                                    !.wordIndex = Min(@ + 1, Len(words) - 1)],
              !.ui.displayWPM = st.targetWPM,
              !.ui.isBraking = FALSE]

\* a stopped branch that keeps counting frame time
stoppedFrameKeepsTime(m, st) ==
    [m EXCEPT !.engine = [st EXCEPT !.currentWPM = 0,
                                    !.accumulatedTime = @ + TickMicros],
              !.ui.displayWPM = st.targetWPM,
              !.ui.isBraking = FALSE]

\* lines 315-320 of loop (not playing), st being the engine after line 246
stoppedFrame(m, st) ==
    [m EXCEPT !.engine = [st EXCEPT !.lastFrameTime = 0, !.currentWPM = 0],
              !.ui.displayWPM = st.targetWPM,
              !.ui.isBraking = FALSE]

\* one run of loop(timestamp): [m |-> the machine after it, f |-> its locals]
loop(m, timestamp) ==
    LET st0 == m.engine
        deltaTime == IF st0.lastFrameTime = 0 THEN 0
                     ELSE timestamp - st0.lastFrameTime
        st == [st0 EXCEPT !.lastFrameTime = timestamp]
    IN IF st.isPlaying
       THEN Only({ [m |-> playingFrame(m, st, deltaTime, f), f |-> f] :
                   f \in {FrameLocals(st, timestamp)} })
       ELSE [m |-> stoppedFrame(m, st), f |-> NoFrame]

----------------------------------------------------------------------------
\* Initial state: ReaderView mounted on a book with a saved progressIndex

InitSettings == [cadence : BOOLEAN, autoRev : BOOLEAN, deadman : BOOLEAN]

\* book.progressIndex: the last word of the book or the one before it
ResumeSet(w) == {i \in {Len(w) - 2, Len(w) - 1} : i >= 0}

ReaderInit ==
    /\ words \in Books
    /\ \E resumeIndex \in ResumeSet(words) :
          /\ engine = [isPlaying |-> FALSE, startTime |-> 0, accumulatedTime |-> 0,
                       lastFrameTime |-> 0, wordIndex |-> resumeIndex,
                       targetWPM |-> INITIAL_WPM, currentWPM |-> 0,
                       isDragging |-> FALSE, lastDragTime |-> 0, dragStartWPM |-> 0]
          /\ ui = [wordIndex |-> resumeIndex, isPlaying |-> FALSE,
                   displayWPM |-> INITIAL_WPM, fontSize |-> INITIAL_FONT_SIZE,
                   isBraking |-> FALSE]
    /\ dragRef = NoDrag
    /\ showSettings = FALSE
    /\ showChapters = FALSE
    /\ settings \in InitSettings
    /\ now = 50
    /\ frameTime = 50
    /\ calls = <<>>
    /\ frame = NoFrame
    /\ lastOp = "init"
    /\ priorIndex = -1
    /\ nEvents = 0

NoWeighing == [token |-> <<>>, weight |-> 0]

Init ==
    /\ ReaderInit
    /\ weighing = NoWeighing
    /\ storage = "ok"

\* the machine m becomes the state; op names what was done
Commit(m, op) ==
    /\ UNCHANGED <<weighing, storage>>
    /\ engine' = m.engine
    /\ ui' = m.ui
    /\ dragRef' = m.dragRef
    /\ calls' = m.calls
    /\ lastOp' = op

----------------------------------------------------------------------------
\* Pointer events (onPointerDown, onPointerUp / onPointerLeave, onPointerMove)

\* what a call of stopPlayback amounts to, given what came just before
StopOp ==
    IF engine.isPlaying
    THEN (IF lastOp = "start" THEN "stopAfterStart" ELSE "stop")
    ELSE (IF lastOp \in {"stop", "stopAfterStart", "frameStop"} THEN "stopAgain"
          ELSE "stopNoop")

DownOp ==
    IF showSettings THEN "downIgnored"
    ELSE IF ~settings.deadman /\ engine.isPlaying THEN StopOp
    ELSE "start"

\* one more pointer event is handled
Event ==
    /\ nEvents < MaxEvents
    /\ nEvents' = nEvents + 1

PointerDown ==
    \E late \in LagSet :
        /\ Event
        /\ now' = Max(now, frameTime + late)
        /\ Commit(handlePointerDown(Machine, DownPos.x, DownPos.y, now'), DownOp)
        /\ priorIndex' = IF DownOp = "start" THEN engine.wordIndex
                         ELSE IF DownOp = "stopAfterStart" THEN priorIndex
                         ELSE -1
        /\ frame' = NoFrame
        /\ UNCHANGED <<showSettings, showChapters, settings, words, frameTime>>

UpOp == IF settings.deadman THEN StopOp ELSE "up"

\* onPointerUp and onPointerLeave are the same handler
PointerUp ==
    /\ Event
    /\ Commit(handlePointerUp(Machine, now), UpOp)
    /\ priorIndex' = IF UpOp = "stopAfterStart" THEN priorIndex ELSE -1
    /\ frame' = NoFrame
    /\ UNCHANGED <<showSettings, showChapters, settings, words, now, frameTime>>

MoveApplies == engine.isPlaying /\ dragRef.open

PointerMove(dx, dy) ==
    /\ Event
    /\ Commit(handlePointerMove(Machine, DownPos.x + dx, DownPos.y + dy, now),
              IF MoveApplies THEN "move" ELSE "moveIgnored")
    /\ priorIndex' = -1
    /\ frame' = NoFrame
    /\ UNCHANGED <<showSettings, showChapters, settings, words, now, frameTime>>

----------------------------------------------------------------------------
\* Animation frames and the clock.  A frame's timestamp is taken when the
\* display refresh begins; a pointer-down handled in that refresh, before the
\* frame callback, may read a performance.now() one tick later.

FrameOp(r) ==
    IF ~engine.isPlaying THEN "frameIdle"
    ELSE IF ~r.m.engine.isPlaying THEN "frameStop"
    ELSE "frame"

\* requestAnimationFrame calls loop(timestamp)
FrameAt(timestamp) ==
    /\ frameTime' = timestamp
    /\ priorIndex' = -1
    /\ UNCHANGED <<showSettings, showChapters, settings, words, nEvents>>
    /\ \E r \in {loop(Machine, timestamp)} :
          /\ Commit(r.m, FrameOp(r))
          /\ frame' = r.f

\* the frame of the refresh in which playback has just been started
Frame ==
    /\ engine.isPlaying
    /\ engine.startTime = now
    /\ engine.lastFrameTime = now
    /\ UNCHANGED now
    /\ FrameAt(frameTime)

\* the refresh interval passes and the next frame runs
TickTo(limit) ==
    \E dt \in DtSet :
        /\ frameTime + dt <= limit
        /\ now' = frameTime + dt
        /\ FrameAt(frameTime + dt)

Tick == TickTo(MaxTime)

----------------------------------------------------------------------------

Next ==
    \/ PointerDown
    \/ PointerUp
    \/ \E mv \in MoveSet : PointerMove(mv.dx, mv.dy)
    \/ Frame
    \/ Tick

Spec == Init /\ [][Next]_vars

\* Pointer events stop after InputDeadline; the loop reschedules itself with
\* requestAnimationFrame at the end of every run, so frames keep arriving.
\* Once stopped, an idle frame changes nothing after the first; the clock is
\* followed no further.
\* getWordWeight on its own: a token is drawn, then weighed
WeighInit ==
    /\ ReaderInit
    /\ storage = "ok"
    /\ weighing \in { [token |-> t, weight |-> 0] : t \in Tokens }

Weigh ==
    /\ weighing.weight = 0
    /\ weighing' = [weighing EXCEPT !.weight = getWordWeight(weighing.token)]
    /\ UNCHANGED readerVars

WeighSpec == WeighInit /\ [][Weigh]_vars

LiveTick == (engine.isPlaying \/ lastOp # "frameIdle") /\ TickTo(LiveMaxTime)

LiveInput == now <= InputDeadline /\ nEvents < LiveMaxEvents

LiveNext ==
    \/ LiveInput /\ PointerDown
    \/ LiveInput /\ PointerUp
    \/ LiveInput /\ \E mv \in MoveSet : PointerMove(mv.dx, mv.dy)
    \/ Frame
    \/ LiveTick

LiveSpec == Init /\ [][LiveNext]_vars /\ WF_vars(LiveTick)

\* the reader with autoRev on, where pointer-downs and drag-moves arrive before
\* the first frame with time on it and pointer-ups and pointer-leaves arrive at
\* any time up to RevMaxTime
RevInit == Init /\ settings.autoRev

RevTick == (engine.isPlaying \/ lastOp # "frameIdle") /\ TickTo(RevMaxTime)

RevNext ==
    \/ LiveInput /\ PointerDown
    \/ LiveInput /\ \E mv \in MoveSet : PointerMove(mv.dx, mv.dy)
    \/ PointerUp
    \/ Frame
    \/ RevTick

RevSpec == RevInit /\ [][RevNext]_vars

\* Taps inside the reader.  The contents button, the modal's overlay and
\* everything in it lie inside the container: their pointer-down is stopped
\* (onPointerDown stopPropagation), their pointer-up bubbles to the container's
\* handlePointerUp, and the click follows it in the same dispatch.

\* what the tap's pointer-up leaves for its click
TapUp == handlePointerUp(Machine, now)

\* a step of a tap: the machine m becomes the state, the modal is open or not
Tapped(m, op, open) ==
    /\ Event
    /\ Commit(m, op)
    /\ showChapters' = open
    /\ priorIndex' = IF op = "stopAfterStart" THEN priorIndex ELSE -1
    /\ frame' = NoFrame
    /\ UNCHANGED <<showSettings, settings, words, now, frameTime>>

\* the contents button: setShowChapters(true)
OpenChapters == ~showChapters /\ Tapped(TapUp, UpOp, TRUE)

\* the X button of the modal: setShowChapters(false)
CloseChapters == showChapters /\ Tapped(TapUp, UpOp, FALSE)

\* a chapter button of the modal
SelectChapter(c) ==
    /\ showChapters
    /\ \E up \in {TapUp} :
          Tapped(selectChapter(up, c),
                 IF up.engine.isPlaying THEN "chapterWhileRunning" ELSE "chapter",
                 FALSE)

ChapterTick == (engine.isPlaying \/ lastOp # "frameIdle") /\ TickTo(ChapterMaxTime)

\* the reader of a book with a contents list
ChapterNext ==
    \/ ~showChapters /\ PointerDown
    \/ PointerUp
    \/ \E mv \in MoveSet : PointerMove(mv.dx, mv.dy)
    \/ Frame
    \/ ChapterTick
    \/ OpenChapters
    \/ CloseChapters
    \/ \E c \in ChapterStarts(words) : SelectChapter(c)

ChapterSpec == Init /\ [][ChapterNext]_vars

\* the reader under drags that go up and down as well: 300 px, 32.5 px and
\* 0.5 px up, level, 1 px and 75 px down, each 50.25 px to the left or 20 px
\* to the right
FontMoveSet == { [dx |-> x, dy |-> y] :
                   x \in {-201, 80}, y \in {-1200, -130, -2, 0, 4, 300} }

FontInput == nEvents < FontMaxEvents

FontNext ==
    \/ FontInput /\ PointerDown
    \/ FontInput /\ PointerUp
    \/ FontInput /\ \E mv \in FontMoveSet : PointerMove(mv.dx, mv.dy)
    \/ Frame
    \/ TickTo(FontMaxTime)

FontSpec == Init /\ [][FontNext]_vars

\* the reader over a store whose writes succeed or fail
SinkInit ==
    /\ ReaderInit
    /\ weighing = NoWeighing
    /\ storage \in {"ok", "failing"}

SinkSpec == SinkInit /\ [][LiveNext]_vars


----------------------------------------------------------------------------
\* Properties

\* what loop computed on the latest frame, while playing
Elapsed == frameTime - engine.startTime
RampComplete == Elapsed >= RampTicks

\* Auto-rev never overlaps the ramp: a fractional effectiveTarget is seen only
\* once rampEase is 1, so FinalWPM is the exact Math.floor on every frame.
RevOnlyAfterRamp ==
    frame.playing => (frame.effectiveTarget.whole \/ RampComplete)

\* the single onUpdateProgress(book.id, newIndex) call of a Stop
ProgressCall(index) == <<[id |-> BookId, index |-> index]>>

\* C1: in every reachable state 0 <= wordIndex < wordCount.
C1_WordIndexInRange ==
    0 <= engine.wordIndex /\ engine.wordIndex < Len(words)

\* C1 witness: a Stop has clamped the rewind at 0 from an index that playback
\* had advanced to below REWIND_COUNT.
C1_Witness ==
    /\ lastOp = "stop"
    /\ Len(words) > REWIND_COUNT
    /\ engine.wordIndex = 0
    /\ engine.accumulatedTime > 0

\* C2: in every reachable state MIN_WPM <= targetWPM <= MAX_WPM.
C2_TargetInRange ==
    MIN_WPM <= engine.targetWPM /\ engine.targetWPM <= MAX_WPM

\* C2 witness: a drag was clamped at MIN_WPM and auto-rev has snapped targetWPM
\* back to the cruise speed.
C2_Witness ==
    /\ frame.playing
    /\ frame.snapped
    /\ engine.targetWPM = INITIAL_WPM
    /\ engine.dragStartWPM = INITIAL_WPM

\* C3 as stated: in every reachable state cruiseWPM >= targetWPM, and
\* cruiseWPM = targetWPM whenever the braking flag is false.
C3_Stated ==
    /\ engine.dragStartWPM >= engine.targetWPM
    /\ ~ui.isBraking => engine.dragStartWPM = engine.targetWPM

\* C3 amended: once a Start has set the cruise speed (dragStartWPM > 0) it is
\* >= targetWPM; and after every frame run while playing that left the braking
\* flag false, cruiseWPM = targetWPM.
C3_CruiseAboveTarget ==
    /\ engine.dragStartWPM > 0 => engine.dragStartWPM >= engine.targetWPM
    /\ (lastOp \in {"frame", "frameStop"} /\ ~ui.isBraking)
          => engine.dragStartWPM = engine.targetWPM

\* C3 witness: a frame of a session whose cruise speed was raised by a drag
\* left the braking flag false.
C3_Witness ==
    /\ lastOp = "frame"
    /\ ~ui.isBraking
    /\ engine.dragStartWPM > INITIAL_WPM
    /\ engine.dragStartWPM = engine.targetWPM

\* C4: a step that takes the engine from playing to stopped (by a pointer event
\* or by the end of the sequence) calls onUpdateProgress exactly once, with the
\* book id and the rewound wordIndex; every other step (a Stop while stopped,
\* a frame, a Start, a drag) calls it zero times.
C4_ProgressOncePerStop ==
    [][IF engine.isPlaying /\ ~engine'.isPlaying
       THEN /\ calls' = ProgressCall(engine'.wordIndex)
            /\ engine'.wordIndex = Max(0, engine.wordIndex - REWIND_COUNT)
       ELSE calls' = <<>>]_vars

\* C4 witness: an explicit Stop has reported a rewound index above 0.
C4_Witness ==
    /\ lastOp = "stop"
    /\ engine.wordIndex > 0
    /\ calls = ProgressCall(engine.wordIndex)

\* no further pointer event can arrive in LiveSpec
InputOver == ~LiveInput

\* C5: a Stop by the loop happens at the final word and only there, rewinds
\* wordIndex by REWIND_COUNT (clamped at 0) and calls onUpdateProgress once; and
\* a session that no pointer event stops is stopped by the loop eventually.
C5_EndOfSequenceStop ==
    /\ [](lastOp = "frameStop" =>
            /\ ~engine.isPlaying
            /\ engine.wordIndex = Max(0, (Len(words) - 1) - REWIND_COUNT)
            /\ calls = ProgressCall(engine.wordIndex))
    /\ ((engine.isPlaying /\ InputOver) ~> (lastOp = "frameStop"))

\* C5 witness: the loop has stopped playback at the end of the five-word book
\* and rewound to index 1.
C5_Witness ==
    /\ lastOp = "frameStop"
    /\ Len(words) = 5
    /\ engine.wordIndex = 1
    /\ Len(calls) = 1

\* C6: Stop twice in succession leaves the engine, the displayed state and the
\* onUpdateProgress calls exactly as Stop once does; and a pointer-up that
\* finds playback already stopped by the step before it changes nothing but
\* what handlePointerUp itself writes, and calls nothing.
C6_StopIdempotent ==
    /\ [](LET once == stopPlayback(Machine)
          IN stopPlayback(once) = once)
    /\ [][lastOp' = "stopAgain" =>
            /\ calls' = <<>>
            /\ ui' = ui
            /\ engine' = [engine EXCEPT !.isDragging = FALSE,
                                        !.lastDragTime = now']]_vars

\* C6 witness: a second Stop has followed a Stop that rewound to an index from
\* which another rewind would have moved.
C6_Witness ==
    /\ lastOp = "stopAgain"
    /\ engine.wordIndex > 0

\* C7 as stated: Start followed at once by Stop leaves wordIndex at
\* priorIndex - min(REWIND_COUNT, priorIndex).
C7_Stated ==
    lastOp = "stopAfterStart" =>
        engine.wordIndex = priorIndex - Min(REWIND_COUNT, priorIndex)

\* C7 amended: Start followed at once by Stop leaves wordIndex at
\* s - min(REWIND_COUNT, s), where s is 0 if priorIndex is the last index of
\* the sequence (Start resets it) and priorIndex otherwise.
C7_StartThenStop ==
    lastOp = "stopAfterStart" =>
        LET s == IF priorIndex >= Len(words) - 1 THEN 0 ELSE priorIndex
        IN engine.wordIndex = s - Min(REWIND_COUNT, s)

\* C7 witness: Start at the last index of the five-word book, then Stop.
C7_Witness ==
    /\ lastOp = "stopAfterStart"
    /\ Len(words) = 5
    /\ priorIndex = Len(words) - 1
    /\ engine.wordIndex = 0

\* a drag-move that handlePointerMove applies, to dx quarter pixels right of
\* the origin of a session started at INITIAL_WPM
MoveTo(dx) ==
    /\ MoveApplies
    /\ dragRef.startWPM = INITIAL_WPM
    /\ PointerMove(dx, 0)

\* C8 as stated: in a session started at 400, a move to +50 px gives
\* targetWPM = cruiseWPM = 500, and a later move to +20 px gives targetWPM = 440
\* and leaves cruiseWPM at 500.
C8_Stated ==
    [][/\ MoveTo(200) =>
            engine'.targetWPM = 500 /\ engine'.dragStartWPM = 500
       /\ (MoveTo(80) /\ engine.dragStartWPM = 500) =>
            engine'.targetWPM = 440 /\ engine'.dragStartWPM = 500]_vars

\* C8 amended: in a session started at 400, a move to +50 px gives
\* targetWPM = cruiseWPM = 500, and a later move to +20 px gives
\* targetWPM = cruiseWPM = 440; in general an applied move sets cruiseWPM to the
\* new targetWPM when that is above the session's start speed, and leaves
\* cruiseWPM unchanged otherwise.
C8_DragSetsCruise ==
    [][/\ MoveTo(200) =>
            engine'.targetWPM = 500 /\ engine'.dragStartWPM = 500
       /\ (MoveTo(80) /\ engine.dragStartWPM = 500) =>
            engine'.targetWPM = 440 /\ engine'.dragStartWPM = 440
       /\ lastOp' = "move" =>
            engine'.dragStartWPM =
                IF engine'.targetWPM > dragRef.startWPM
                THEN engine'.targetWPM
                ELSE engine.dragStartWPM]_vars

\* C8 witness: after a start at 400 and two drag-moves the session is at
\* targetWPM = cruiseWPM = 440.
C8_Witness ==
    /\ lastOp = "move"
    /\ nEvents = 3
    /\ dragRef.open
    /\ dragRef.startWPM = INITIAL_WPM
    /\ engine.targetWPM = 440
    /\ engine.dragStartWPM = 440

\* the latest frame ran the auto-rev interpolation
Revving == frame.playing /\ frame.revving
\* the latest frame snapped targetWPM to the cruise speed
Snapped == frame.playing /\ frame.snapped
\* revProgress >= 0.99 at the latest frame
SnapDue ==
    100 * (frameTime - engine.lastDragTime - RevDelayTicks) >= 99 * RevDurationTicks

\* what C9 asks of every state
AutoRevSafe ==
    /\ Revving => /\ settings.autoRev
                  /\ frame.effectiveTarget.int <= engine.dragStartWPM
                  /\ Snapped \/ frame.effectiveTarget.int >= engine.targetWPM
                  /\ Snapped <=> SnapDue
    /\ Snapped => engine.targetWPM = engine.dragStartWPM
    /\ (frame.playing /\ ~Revving /\ engine.targetWPM = engine.dragStartWPM)
          => /\ frame.effectiveTarget.int = engine.dragStartWPM
             /\ frame.effectiveTarget.whole

\* a braking drag has been released, playback runs and no pointer event follows
BrakeReleased == engine.isPlaying /\ AutoRevArmed(engine) /\ InputOver

\* the snap has happened, or playback ended before it was due
SnappedOrEndedEarly == Snapped \/ (~engine.isPlaying /\ ~SnapDue)

\* C9: with autoRev on, on every frame after the delay of a released braking
\* drag effectiveTarget lies at or above the braked targetWPM and at most at
\* cruiseWPM; a frame with revProgress >= 0.99, and no earlier one, snaps
\* targetWPM to cruiseWPM; on every frame that finds targetWPM = cruiseWPM,
\* effectiveTarget is exactly cruiseWPM; and a released braking drag of a
\* session that keeps running until the snap is due is snapped eventually.
C9_AutoRevSnaps ==
    /\ []AutoRevSafe
    /\ (BrakeReleased ~> SnappedOrEndedEarly)

\* C9 witness: a frame with revProgress in [0.99, 1) found effectiveTarget
\* still short of cruiseWPM and snapped targetWPM to it, playback going on.
C9_Witness ==
    /\ Snapped
    /\ engine.isPlaying
    /\ ~frame.effectiveTarget.whole
    /\ engine.targetWPM = engine.dragStartWPM

\* C10 as stated: on the frames of a session without dragging and without
\* auto-rev, currentWPM starts at 0 at Start, lies between 0 and targetWPM, does
\* not fall from one frame to the next, and is targetWPM once
\* RAMP_UP_DURATION_MS has passed.
C10_Stated ==
    /\ [](lastOp = "start" => engine.currentWPM = 0)
    /\ []((frame.playing /\ ~frame.revving /\ ~engine.isDragging) =>
             /\ 0 <= engine.currentWPM
             /\ engine.currentWPM <= engine.targetWPM
             /\ RampComplete => engine.currentWPM = engine.targetWPM)
    /\ [][(lastOp = "frame" /\ lastOp' \in {"frame", "frameStop"}
             /\ ~engine.isDragging /\ engine'.targetWPM = engine.targetWPM)
            => engine'.currentWPM >= engine.currentWPM]_vars

\* C10 without the lower limit: on the frames of a session without dragging
\* and without auto-rev currentWPM is at most targetWPM, does not fall from one
\* frame to the next, and is targetWPM once RAMP_UP_DURATION_MS has passed.
RampMonotoneBelowTarget ==
    /\ []((frame.playing /\ ~frame.revving /\ ~engine.isDragging) =>
             /\ engine.currentWPM <= engine.targetWPM
             /\ RampComplete => engine.currentWPM = engine.targetWPM)
    /\ [][(lastOp = "frame" /\ lastOp' \in {"frame", "frameStop"}
             /\ ~engine.isDragging /\ engine'.targetWPM = engine.targetWPM)
            => engine'.currentWPM >= engine.currentWPM]_vars

\* the first frame of a session stamped before the Start of its own refresh
NegativeSpeedFrame ==
    /\ lastOp = "frame"
    /\ Elapsed < 0
    /\ engine.currentWPM < 0


\* C11: under the Deadman policy every pointer-down performs Start (playing,
\* with startTime = lastFrameTime = now, accumulatedTime = 0 and a DragSession
\* open) and every pointer-up or pointer-leave performs Stop, so that the
\* engine is stopped right after it; the Stop of a playing engine rewinds and
\* reports the progress.
C11_DeadmanPolicy ==
    [][settings.deadman =>
         /\ PointerDown =>
              /\ engine'.isPlaying
              /\ engine'.startTime = now'
              /\ engine'.lastFrameTime = now'
              /\ engine'.accumulatedTime = 0
              /\ dragRef'.open
              /\ calls' = <<>>
         /\ PointerUp =>
              /\ ~engine'.isPlaying
              /\ ~ui'.isPlaying
              /\ engine.isPlaying =>
                   /\ engine'.wordIndex = Max(0, engine.wordIndex - REWIND_COUNT)
                   /\ calls' = ProgressCall(engine'.wordIndex)]_vars

\* C11 witness: under Deadman a pointer-up has stopped a session that frames
\* had advanced.
C11_Witness ==
    /\ settings.deadman
    /\ lastOp = "stop"
    /\ ~engine.isPlaying
    /\ ~dragRef.open
    /\ engine.lastDragTime = now
    /\ engine.accumulatedTime > 0

\* C12: under the Toggle policy a pointer-down while stopped performs Start, a
\* pointer-down while playing performs Stop (rewinding and reporting the
\* progress), and a pointer-up or pointer-leave changes neither isPlaying nor
\* wordIndex.
C12_TogglePolicy ==
    [][~settings.deadman =>
         /\ (PointerDown /\ ~engine.isPlaying) =>
              /\ engine'.isPlaying
              /\ engine'.startTime = now'
              /\ dragRef'.open
              /\ calls' = <<>>
         /\ (PointerDown /\ engine.isPlaying) =>
              /\ ~engine'.isPlaying
              /\ engine'.wordIndex = Max(0, engine.wordIndex - REWIND_COUNT)
              /\ calls' = ProgressCall(engine'.wordIndex)
         /\ PointerUp =>
              /\ engine'.isPlaying = engine.isPlaying
              /\ engine'.wordIndex = engine.wordIndex
              /\ ui'.isPlaying = ui.isPlaying
              /\ calls' = <<>>]_vars

\* C12 witness: under Toggle a pointer-up has left a session playing, and
\* frames have run in it since.
C12_Witness ==
    /\ ~settings.deadman
    /\ engine.isPlaying
    /\ ~dragRef.open
    /\ lastOp = "frame"
    /\ engine.lastDragTime >= engine.startTime


\* the machine with the timing state of the past session wiped: no partial
\* dwell, no frame time, no ramp origin, no speed, no drag in progress
Scrubbed(m) ==
    [m EXCEPT !.engine.accumulatedTime = 0,
              !.engine.lastFrameTime = 0,
              !.engine.startTime = 0,
              !.engine.currentWPM = 0,
              !.engine.isDragging = FALSE,
              !.engine.lastDragTime = 0]

\* what a session begun now from m shows after its first frame dt ticks later:
\* the word, the dwell, the speeds and everything displayed
Session(m, dt) ==
    LET started == startPlayback(m, DownPos.x, DownPos.y, now)
    IN Only({ [wordIndex |-> r.engine.wordIndex,
               isPlaying |-> r.engine.isPlaying,
               accumulatedTime |-> r.engine.accumulatedTime,
               currentWPM |-> r.engine.currentWPM,
               targetWPM |-> r.engine.targetWPM,
               dragStartWPM |-> r.engine.dragStartWPM,
               ui |-> r.ui,
               calls |-> r.calls] : r \in {loop(started, now + dt).m} })

Stopped == lastOp \in {"stop", "stopAfterStart", "frameStop"}

\* C13 as stated: a Stop transition resets accumulatedTime and lastFrameTime.
C13_Stated ==
    Stopped => (engine.accumulatedTime = 0 /\ engine.lastFrameTime = 0)

\* C13: a Stop leaves accumulatedTime and lastFrameTime as they are; it is the
\* next Start that sets accumulatedTime to 0 and startTime and lastFrameTime to
\* now.  So the session begun by a Start after a Stop goes exactly as it would
\* from a state whose timing fields had been wiped: same word, dwell, speeds
\* and display after its first frame.
C13_NoResidue ==
    /\ lastOp = "start" =>
         /\ engine.accumulatedTime = 0
         /\ engine.startTime = now
         /\ engine.lastFrameTime = now
    /\ Stopped =>
         \A dt \in DtSet : Session(Machine, dt) = Session(Scrubbed(Machine), dt)

\* C13 witness: a Stop under Toggle has left a partial dwell, a frame time and
\* a drag in progress behind in the engine.
C13_Witness ==
    /\ Stopped
    /\ engine.accumulatedTime > 0
    /\ engine.lastFrameTime > 0
    /\ engine.startTime > 0
    /\ engine.currentWPM > 0
    /\ engine.isDragging


\* C14 as stated: a Start applied while the engine is already playing (a
\* second pointer-down under Deadman with no pointer-up between) leaves
\* startTime, accumulatedTime, cruiseWPM and the word index as they were.
C14_Stated ==
    [][(PointerDown /\ settings.deadman /\ engine.isPlaying) =>
         /\ engine'.startTime = engine.startTime
         /\ engine'.accumulatedTime = engine.accumulatedTime
         /\ engine'.dragStartWPM = engine.dragStartWPM
         /\ engine'.wordIndex = engine.wordIndex]_vars

\* C14: what the code does instead.  Under Deadman a second pointer-down during
\* a braking drag, a second or more into the session and with no pointer-up and
\* no end of sequence between, has started the session over: the ramp begins
\* again from now and the braked target has become the cruise speed.
C14_RestartedWhileRunning ==
    /\ settings.deadman
    /\ lastOp = "start"
    /\ nEvents = 3
    /\ Len(words) = 5
    /\ engine.wordIndex = 3
    /\ ui.isBraking
    /\ engine.currentWPM > 0
    /\ engine.startTime = now
    /\ now >= 150
    /\ engine.accumulatedTime = 0
    /\ engine.dragStartWPM < INITIAL_WPM


\* C15: a drag-move that arrives when no DragSession is open, or when the
\* engine is not playing, is discarded: targetWPM, cruiseWPM, isDragging,
\* lastDragTime and the font size (the whole engine and everything displayed)
\* stay as they were, the drag session is untouched and nothing is reported.
C15_MoveDiscarded ==
    [][((~dragRef.open \/ ~engine.isPlaying)
            /\ lastOp' \in {"move", "moveIgnored"}) =>
         /\ engine' = engine
         /\ ui' = ui
         /\ dragRef' = dragRef
         /\ calls' = <<>>]_vars

\* C15 witness: a drag-move was discarded while a drag session was still open
\* on a stopped engine (the session a Toggle pointer-down left behind).
C15_Witness ==
    /\ lastOp = "moveIgnored"
    /\ dragRef.open
    /\ ~engine.isPlaying
    /\ engine.targetWPM = dragRef.startWPM


\* C16: the dwell 60000 / currentWPM is computed only on frames where
\* currentWPM > 0 (no run of the model divides by a speed that is not
\* positive); a frame processed while playing that leaves currentWPM <= 0
\* changes neither accumulatedTime nor wordIndex, and does not stop the engine.
C16_NoDwellWithoutSpeed ==
    [][(engine.isPlaying /\ lastOp' \in {"frame", "frameStop"}
            /\ engine'.currentWPM <= 0) =>
         /\ engine'.accumulatedTime = engine.accumulatedTime
         /\ engine'.wordIndex = engine.wordIndex
         /\ engine'.isPlaying
         /\ calls' = <<>>]_vars

\* C16 witness: a frame processed while playing, with a timestamp no later
\* than the time its Start was stamped with, has left the speed at 0 or below.
C16_Witness ==
    /\ lastOp = "frame"
    /\ frame.playing
    /\ engine.isPlaying
    /\ engine.currentWPM <= 0
    /\ engine.lastFrameTime <= engine.startTime
    /\ engine.accumulatedTime = 0


\* the token of weighing with the characters outside a-z A-Z 0-9 . , ! ? ; :
\* left out: how many characters are left
StrippedLength ==
    Cardinality({ i \in 1..Len(weighing.token) :
                    weighing.token[i] \in Letters \cup Digits \cup KeptPunct })

LastCharIn(S) ==
    /\ weighing.token # <<>>
    /\ weighing.token[Len(weighing.token)] \in S

\* C17: getWordWeight returns 2.2 if the token's original last character is one
\* of . ! ?, else 1.5 if it is one of , ; :, else 0.8 if the stripped form is
\* shorter than 4 characters, else 1.1 if it is longer than 8, else 1.0, and
\* 1.0 for the empty token; so "Hello." weighs 2.2, "cat," 1.5, "the" 0.8,
\* "information" 1.1 and "table" 1.0 (weights in tenths).
C17_WordWeight ==
    weighing.weight # 0 =>
       /\ weighing.weight =
             IF weighing.token = <<>> THEN 10
             ELSE IF LastCharIn({".", "!", "?"}) THEN 22
             ELSE IF LastCharIn({",", ";", ":"}) THEN 15
             ELSE IF StrippedLength < 4 THEN 8
             ELSE IF StrippedLength > 8 THEN 11
             ELSE 10
       /\ weighing.token = Tok_Hello => weighing.weight = 22
       /\ weighing.token = Tok_cat => weighing.weight = 15
       /\ weighing.token = Tok_the => weighing.weight = 8
       /\ weighing.token = Tok_information => weighing.weight = 11
       /\ weighing.token = Tok_table => weighing.weight = 10

\* C17 witness: a token whose stripped form is shorter than 4 characters and
\* which ends in a full stop has been weighed 2.2, the trailing punctuation
\* taking precedence over the length.
C17_Witness ==
    /\ weighing.token = <<"'", "a", ".">>
    /\ weighing.weight = 22


DraggedWPM2(dxq) ==
    LET raw2 == 2 * dragRef.startWPM + dxq
    IN IF raw2 < 2 * MIN_WPM THEN 2 * MIN_WPM
       ELSE IF raw2 > 2 * MAX_WPM THEN 2 * MAX_WPM
       ELSE raw2

C20_StartEffect ==
    [][((settings.deadman \/ ~engine.isPlaying) /\ PointerDown) =>
         /\ engine'.wordIndex =
               IF engine.wordIndex >= Len(words) - 1 THEN 0 ELSE engine.wordIndex
         /\ ui'.wordIndex = engine'.wordIndex
         /\ engine'.isPlaying
         /\ ui'.isPlaying
         /\ engine'.startTime = now'
         /\ engine'.lastFrameTime = now'
         /\ engine'.accumulatedTime = 0
         /\ engine'.dragStartWPM = engine.targetWPM
         /\ engine'.targetWPM = engine.targetWPM
         /\ dragRef' = [open |-> TRUE, startX |-> DownPos.x, startY |-> DownPos.y,
                        startWPM |-> engine.targetWPM,
                        startFontSize |-> ui.fontSize]
         /\ calls' = <<>>]_vars

\* C20 witness: a Start made after drags had changed the target speed and the
\* font size has opened its session at that speed and size.
C20_Witness ==
    /\ lastOp = "start"
    /\ engine.isPlaying
    /\ engine.targetWPM # INITIAL_WPM
    /\ ui.fontSize # INITIAL_FONT_SIZE
    /\ dragRef.open
    /\ dragRef.startWPM = engine.targetWPM
    /\ dragRef.startFontSize = ui.fontSize
    /\ engine.dragStartWPM = engine.targetWPM
    /\ engine.startTime = now
    /\ engine.accumulatedTime = 0


\* C21 as stated: in every state reached right after a Stop that took effect
\* no DragSession is open.
C21_Stated == Stopped => ~dragRef.open

\* C21: a Stop does not close the DragSession; the pointer-up or pointer-leave
\* handler does, whether or not it stops.  So after a pointer-up no session is
\* open, while a Stop made by a pointer-down under Toggle or by the end of the
\* sequence leaves dragRef as it was.  A session left open on a stopped engine
\* has no effect: every drag-move is discarded until the next Start opens a
\* new one.
C21_SessionClosedByPointerUp ==
    [][/\ PointerUp => ~dragRef'.open
       /\ (engine.isPlaying /\ ~engine'.isPlaying
              /\ (~settings.deadman \/ lastOp' = "frameStop")) =>
            dragRef' = dragRef
       /\ (~engine.isPlaying /\ dragRef.open) =>
            \A mv \in MoveSet :
               handlePointerMove(Machine, DownPos.x + mv.dx,
                                 DownPos.y + mv.dy, now) = Machine]_vars

\* C21 witness: under Deadman, with the pointer still down, the sequence has
\* ended and the engine has stopped with the drag session open.
C21_Witness ==
    /\ settings.deadman
    /\ lastOp = "frameStop"
    /\ ~engine.isPlaying
    /\ dragRef.open
    /\ engine.isDragging


\* the dwell of the word at index i at the speed wpm > 0: 60000 / wpm, times
\* the word's weight under cadence (microseconds)
WordDwell(i, wpm) ==
    IF settings.cadence
    THEN (6000 * 1000 * getWordWeight(words[i + 1])) \div wpm
    ELSE (60000 * 1000) \div wpm

\* C22 as stated: when the update of a playing frame with currentWPM > 0 ends
\* without a Stop, accumulatedTime is below the dwell the frame used (that of
\* the word it began on), however large the frame's deltaTime was.
C22_Stated ==
    [][(engine.isPlaying /\ lastOp' = "frame" /\ engine'.currentWPM > 0) =>
         engine'.accumulatedTime < WordDwell(engine.wordIndex, engine'.currentWPM)]_vars

\* C22: what the code does instead.  A frame one second after the last, at 395
\* WPM or more, has advanced the index by one word only and has left more than
\* two further dwells of that word in accumulatedTime.
C22_DwellLeftOver ==
    /\ lastOp = "frame"
    /\ engine.isPlaying
    /\ engine.currentWPM >= 395
    /\ engine.wordIndex > 0
    /\ engine.accumulatedTime >
          2 * WordDwell(engine.wordIndex - 1, engine.currentWPM)


\* C23 as stated: on every playing frame currentWPM = floor(effectiveTarget *
\* rampEase) lies between 0 and effectiveTarget (rampProgress being clamped
\* into [0, 1]); currentWPM is never negative.
C23_Stated ==
    frame.playing =>
       /\ 0 <= frame.finalWPM
       /\ frame.finalWPM <= frame.effectiveTarget.int

\* C23: what the code does instead.  rampProgress has an upper limit only: on
\* a frame stamped 10 ms before the startTime its Start read, rampProgress is
\* negative and so is the speed the frame sets and displays.
C23_NegativeRamp ==
    /\ frame.playing
    /\ frameTime < engine.startTime
    /\ frame.finalWPM < 0
    /\ engine.currentWPM = frame.finalWPM
    /\ ui.displayWPM = frame.finalWPM


\* all that must hold for the frame about to run to lift effectiveTarget off
\* targetWPM: autoRev on, no drag in progress, targetWPM below cruiseWPM and
\* more than AUTO_REV_DELAY_MS between lastDragTime and the frame's timestamp
RevConditions ==
    /\ settings.autoRev
    /\ ~engine.isDragging
    /\ engine.targetWPM < engine.dragStartWPM
    /\ frameTime' - engine.lastDragTime > RevDelayTicks

\* the step is a frame processed while playing
PlayingFrameStep == engine.isPlaying /\ lastOp' \in {"frame", "frameStop"}

\* C24: on a playing frame effectiveTarget differs from targetWPM only if
\* autoRev is enabled, isDragging is false, targetWPM < cruiseWPM and more
\* than AUTO_REV_DELAY_MS has passed since lastDragTime; otherwise
\* effectiveTarget = targetWPM and the frame does not modify targetWPM.
C24_RevOnlyWhenArmed ==
    [][PlayingFrameStep =>
         /\ frame'.effectiveTarget # [int |-> engine.targetWPM, whole |-> TRUE]
               => RevConditions
         /\ engine'.targetWPM # engine.targetWPM => RevConditions
         /\ ~RevConditions =>
               /\ frame'.effectiveTarget.int = engine.targetWPM
               /\ engine'.targetWPM = engine.targetWPM
               /\ ~frame'.revving
               /\ ~frame'.snapped]_vars

\* C24 witness: a frame has run while a braking drag was still in progress
\* long after the delay, with autoRev on, and has left effectiveTarget at
\* targetWPM.
C24_Witness ==
    /\ frame.playing
    /\ settings.autoRev
    /\ engine.isDragging
    /\ engine.targetWPM < engine.dragStartWPM
    /\ frameTime - engine.lastDragTime > RevDelayTicks + RevDurationTicks
    /\ frame.effectiveTarget.int = engine.targetWPM
    /\ ~frame.revving


\* C25 as stated: the braking flag a playing frame hands to the display
\* equals (cruiseWPM > 0) AND (effectiveTarget < cruiseWPM); it is false during
\* the ramp-up after a Start with no drag, true while braked or revving, and
\* false once targetWPM has been snapped to cruiseWPM.
C25_Stated ==
    [][PlayingFrameStep =>
         /\ ui'.isBraking = (engine.dragStartWPM > 0
                                /\ frame'.effectiveTarget.int < engine.dragStartWPM)
         /\ engine.targetWPM = engine.dragStartWPM => ~ui'.isBraking
         /\ (engine.targetWPM < engine.dragStartWPM /\ ~frame'.snapped)
               => ui'.isBraking
         /\ frame'.snapped => ~ui'.isBraking]_vars

\* C25: the braking flag a playing frame hands to the display equals
\* (cruiseWPM > 0) AND (effectiveTarget < cruiseWPM).  So it is false on the
\* frames of a ramp-up with targetWPM = cruiseWPM, although currentWPM is below
\* cruiseWPM there; true while targetWPM is braked below cruiseWPM and the rev
\* has not brought effectiveTarget back up to it, the frame that snaps
\* targetWPM before the rev is complete included; and false on every frame
\* that finds targetWPM snapped back to cruiseWPM.
C25_BrakingFlag ==
    [][PlayingFrameStep =>
         /\ ui'.isBraking = (engine.dragStartWPM > 0
                                /\ frame'.effectiveTarget.int < engine.dragStartWPM)
         /\ engine.targetWPM = engine.dragStartWPM => ~ui'.isBraking
         /\ (engine.targetWPM < engine.dragStartWPM /\ ~RevConditions)
               => ui'.isBraking
         /\ (RevConditions
               /\ frameTime' - engine.lastDragTime < RevDelayTicks + RevDurationTicks)
               => ui'.isBraking
         /\ (lastOp = "frame" /\ frame.snapped) => ~ui'.isBraking]_vars

\* C25 witness: a frame has snapped targetWPM to cruiseWPM with the rev at 99%
\* or more but not complete, and has set the braking flag.
C25_Witness ==
    /\ frame.playing
    /\ frame.snapped
    /\ engine.targetWPM = engine.dragStartWPM
    /\ frame.effectiveTarget.int < engine.dragStartWPM
    /\ ui.isBraking


\* C26: a frame that finds the engine stopped sets currentWPM = 0, the
\* displayed speed = targetWPM and the braking flag = false, zeroes
\* lastFrameTime, and leaves wordIndex, targetWPM, cruiseWPM, accumulatedTime
\* and isPlaying as they were; so time that passes while stopped is not added
\* to accumulatedTime.
C26_StoppedFrame ==
    [][(~engine.isPlaying /\ lastOp' = "frameIdle") =>
         /\ engine' = [engine EXCEPT !.currentWPM = 0, !.lastFrameTime = 0]
         /\ ui' = [ui EXCEPT !.displayWPM = engine.targetWPM, !.isBraking = FALSE]
         /\ dragRef' = dragRef
         /\ calls' = <<>>]_vars

\* C26 witness: a second has passed on a stopped engine that holds a partial
\* dwell and a frame has run, leaving the dwell as it was.
C26_Witness ==
    /\ lastOp = "frameIdle"
    /\ ~engine.isPlaying
    /\ engine.accumulatedTime > 0
    /\ engine.currentWPM = 0
    /\ engine.lastFrameTime = 0
    /\ ui.displayWPM = engine.targetWPM
    /\ engine.targetWPM # INITIAL_WPM


\* the dwell available to the frame about to run: accumulatedTime plus the
\* time since the last frame (microseconds)
DwellOnFrame == engine.accumulatedTime + (frameTime' - engine.lastFrameTime) * TickMicros

\* 60000 / currentWPM for the speed the frame has set, times the weight of the
\* word the frame began on exactly when cadence is enabled (microseconds)
DwellThreshold ==
    IF settings.cadence
    THEN (6000 * 1000 * getWordWeight(words[engine.wordIndex + 1]))
            \div engine'.currentWPM
    ELSE (60000 * 1000) \div engine'.currentWPM

\* C27: on a playing frame with currentWPM > 0 the dwell threshold for the
\* word at the current wordIndex is 60000 / currentWPM, multiplied by the
\* word's cadence weight exactly when the cadence setting is enabled: the frame
\* moves on from the word (to the next word, or to a Stop after the last), taking
\* the threshold off the dwell, exactly when the dwell has reached it.
C27_DwellThreshold ==
    [][(PlayingFrameStep /\ engine'.currentWPM > 0) =>
         IF DwellOnFrame >= DwellThreshold
         THEN /\ engine'.accumulatedTime = DwellOnFrame - DwellThreshold
              /\ IF engine.wordIndex + 1 >= Len(words)
                 THEN lastOp' = "frameStop"
                 ELSE lastOp' = "frame" /\ engine'.wordIndex = engine.wordIndex + 1
         ELSE /\ engine'.accumulatedTime = DwellOnFrame
              /\ engine'.wordIndex = engine.wordIndex
              /\ lastOp' = "frame"]_vars

\* C27 witness: with cadence on, the frame one second into a book whose only
\* word is "Hello." has taken 60000 / currentWPM * 2.2 off the dwell.
C27_Witness ==
    /\ settings.cadence
    /\ words = <<Tok_Hello>>
    /\ lastOp = "frameStop"
    /\ engine.currentWPM > 0
    /\ engine.accumulatedTime =
          100 * TickMicros - (6000 * 1000 * 22) \div engine.currentWPM


C29_Stated ==
    [][(PlayingFrameStep /\ settings.autoRev
           /\ engine.lastFrameTime - engine.startTime >= RampTicks) =>
         frame'.effectiveTarget.int >= engine.currentWPM]_vars

\* What does hold of the rev: while playing with autoRev on, effectiveTarget does not fall from one
\* frame to the next when no pointer event arrives between them, and it is
\* never below targetWPM nor above cruiseWPM.  A pointer-up or pointer-leave
\* refreshes lastDragTime: the frames that follow it within AUTO_REV_DELAY_MS
\* have effectiveTarget = targetWPM, whatever the rev had reached.
C29_RevMonotoneBetweenEvents ==
    [][(PlayingFrameStep /\ settings.autoRev) =>
         /\ lastOp = "frame" =>
              frame'.effectiveTarget.int >= frame.effectiveTarget.int
         /\ frame'.effectiveTarget.int >= engine.targetWPM
         /\ frame'.effectiveTarget.int <= Max(engine.targetWPM, engine.dragStartWPM)
         /\ (lastOp = "up" /\ frameTime' - now <= RevDelayTicks) =>
              frame'.effectiveTarget.int = engine.targetWPM]_vars

\* C29 witness: with autoRev on and the target braked, a pointer-up has arrived
\* after the delay had passed since the one before it, and the frame that
\* followed has effectiveTarget = targetWPM.
C29_Witness ==
    /\ settings.autoRev
    /\ ~settings.deadman
    /\ lastOp = "frame"
    /\ nEvents = 4
    /\ engine.isPlaying
    /\ ~engine.isDragging
    /\ engine.targetWPM < engine.dragStartWPM
    /\ engine.lastDragTime - engine.startTime > RevDelayTicks
    /\ frameTime > engine.lastDragTime
    /\ frame.effectiveTarget = [int |-> engine.targetWPM, whole |-> TRUE]


\* C30: neither Stop nor Start modifies targetWPM (a pointer event that stops
\* or starts leaves it as it was, and the Stop at the end of the sequence
\* leaves it as the frame's own snap, if any, set it), and Start overwrites
\* cruiseWPM with targetWPM; so a Start that finds targetWPM braked below
\* cruiseWPM makes the braked speed the cruise speed of the new session.
C30_BrakeBecomesCruise ==
    [][/\ lastOp' \in {"start", "stop", "stopAfterStart", "stopAgain", "stopNoop"} =>
            engine'.targetWPM = engine.targetWPM
       /\ lastOp' \in {"stop", "stopAfterStart", "stopAgain", "stopNoop"} =>
            engine'.dragStartWPM = engine.dragStartWPM
       /\ (lastOp' = "frameStop" /\ ~frame'.snapped) =>
            engine'.targetWPM = engine.targetWPM
       /\ lastOp' = "start" =>
            /\ engine'.dragStartWPM = engine.targetWPM
            /\ engine.targetWPM < engine.dragStartWPM =>
                 engine'.dragStartWPM < engine.dragStartWPM]_vars

\* C30 witness: a session was started, braked below the initial speed and
\* stopped, and the Start that followed has made the braked speed the cruise.
C30_Witness ==
    /\ lastOp = "start"
    /\ nEvents = 4
    /\ engine.isPlaying
    /\ engine.targetWPM < INITIAL_WPM
    /\ engine.dragStartWPM = engine.targetWPM
    /\ dragRef.open
    /\ dragRef.startWPM = engine.targetWPM


\* C31: under the Deadman policy, whenever the engine is playing a DragSession
\* is open: no reachable state has isPlaying true and no open DragSession.
C31_DeadmanRunningHasSession ==
    (settings.deadman /\ engine.isPlaying) => dragRef.open

\* C31 witness: under Deadman the engine plays, frames have passed since the
\* Start, and the DragSession of that Start is still open.
C31_Witness ==
    /\ settings.deadman
    /\ engine.isPlaying
    /\ dragRef.open
    /\ lastOp = "frame"
    /\ frame.playing
    /\ engine.currentWPM > 0


\* C32: while the engine is stopped wordIndex stays as the Stop left it until
\* the next Start, whatever frames, drag-moves and pointer-ups come between;
\* and a frame changes wordIndex only if isPlaying was true when it began.
C32_IndexFrozenWhileStopped ==
    [][/\ ~engine.isPlaying =>
            \/ engine'.wordIndex = engine.wordIndex
            \/ lastOp' = "start"
       /\ (lastOp' \in {"frame", "frameStop", "frameIdle"}
             /\ engine'.wordIndex # engine.wordIndex) => engine.isPlaying]_vars

\* C32 witness: a Stop on the last word of the five-word book has rewound to
\* its second word (no resume index is that low), pointer events have followed
\* and a frame has run with the engine still stopped on that word.
C32_Witness ==
    /\ ~engine.isPlaying
    /\ lastOp = "frameIdle"
    /\ nEvents = 4
    /\ frameTime >= 250
    /\ Len(words) = 5
    /\ engine.wordIndex = 1
    /\ ui.wordIndex = 1


\* the Start about to be taken resets the index to 0
StartResets == lastOp' = "start" /\ engine.wordIndex >= Len(words) - 1

\* C33 as stated: for wordCount >= 2 every Stop leaves wordIndex <=
\* wordCount - 2, the Stop at the end of the sequence leaves wordIndex =
\* max(0, wordCount - 1 - REWIND_COUNT), and a Start resets the index to 0 only
\* when it is the first Start and the initial resume index is the last word.
C33_Stated ==
    [][Len(words) >= 2 =>
         /\ (engine.isPlaying /\ ~engine'.isPlaying) =>
              engine'.wordIndex <= Len(words) - 2
         /\ lastOp' = "frameStop" =>
              engine'.wordIndex = Max(0, Len(words) - 1 - REWIND_COUNT)
         /\ StartResets => engine.startTime = 0]_vars

\* What does hold of the reset: it is taken by the first Start on the last
\* word, or by a Start that finds the engine already playing on the last word.
C33_ResetOnlyWithoutStop ==
    [][Len(words) >= 2 =>
         /\ (engine.isPlaying /\ ~engine'.isPlaying) =>
              engine'.wordIndex <= Len(words) - 2
         /\ lastOp' = "frameStop" =>
              engine'.wordIndex = Max(0, Len(words) - 1 - REWIND_COUNT)
         /\ StartResets => (engine.startTime = 0 \/ engine.isPlaying)]_vars

\* C33 witness: under Deadman a Start found the engine playing the last word
\* (its speed is still that of the last frame) and has reset the index to 0.
C33_RestartResets ==
    /\ settings.deadman
    /\ Len(words) >= 2
    /\ lastOp = "start"
    /\ engine.currentWPM > 0
    /\ priorIndex = Len(words) - 1
    /\ engine.wordIndex = 0


\* C34: on every playing frame currentWPM <= cruiseWPM <= MAX_WPM: the speed
\* the frame sets, and the effectiveTarget it is taken from, never exceed the
\* cruise setpoint, during ramp-up, braking and revving alike.
C34_SpeedWithinCruise ==
    frame.playing =>
       /\ engine.currentWPM = frame.finalWPM
       /\ engine.currentWPM <= engine.dragStartWPM
       /\ frame.effectiveTarget.int <= engine.dragStartWPM
       /\ engine.dragStartWPM <= MAX_WPM

\* C34 witness: after an accelerating drag that was cut off at MAX_WPM, a
\* frame past the ramp runs at the cruise speed, which is MAX_WPM.
C34_Witness ==
    /\ frame.playing
    /\ engine.isPlaying
    /\ engine.dragStartWPM = MAX_WPM
    /\ engine.currentWPM = MAX_WPM
    /\ frameTime - engine.startTime >= RampTicks


\* C35: selecting a chapter from the contents list leaves the engine stopped
\* with wordIndex exactly the chapter's startIndex (no rewind, also when
\* playback was running), the display on that word and stopped, the modal
\* closed, and reports that index to onUpdateProgress exactly once.
C35_ChapterJump ==
    [][\A c \in ChapterStarts(words) :
         (showChapters /\ lastOp' \in {"chapter", "chapterWhileRunning"}
            /\ SelectChapter(c)) =>
           /\ engine'.wordIndex = c
           /\ ~engine'.isPlaying
           /\ ui'.wordIndex = c
           /\ ~ui'.isPlaying
           /\ ~showChapters'
           /\ calls' = ProgressCall(c)
           /\ engine'.targetWPM = engine.targetWPM
           /\ engine'.dragStartWPM = engine.dragStartWPM]_vars

\* C35 witness: a chapter starting at word 2 was selected while playback was
\* running; the engine is stopped on word 2, not rewound, and word 2 was
\* reported once.
C35_Witness ==
    /\ lastOp = "chapterWhileRunning"
    /\ ~engine.isPlaying
    /\ ~ui.isPlaying
    /\ engine.currentWPM > 0
    /\ engine.wordIndex = 2
    /\ ui.wordIndex = 2
    /\ calls = ProgressCall(2)
    /\ ~showChapters


\* sessionStartFontSize - 0.5 * dy cut off at MIN_FONT_SIZE and MAX_FONT_SIZE,
\* in eighths, for a drag that has moved dy quarter pixels down
FontWanted8(dy) ==
    LET v == 8 * dragRef.startFontSize - dy
    IN IF v < 8 * MIN_FONT_SIZE THEN 8 * MIN_FONT_SIZE
       ELSE IF v > 8 * MAX_FONT_SIZE THEN 8 * MAX_FONT_SIZE
       ELSE v

\* C36: the font size set by a drag-move is the whole number nearest to
\* clamp(sessionStartFontSize - 0.5 * dy, MIN_FONT_SIZE, MAX_FONT_SIZE), halves
\* going up, so it lies in [32, 128]; and dy affects nothing of the engine:
\* targetWPM, cruiseWPM and every timing field are what the same drag-move
\* with dy = 0 would have made them.
C36_FontFromDrag ==
    [][\A mv \in FontMoveSet :
         (lastOp' = "move" /\ PointerMove(mv.dx, mv.dy)) =>
           /\ 8 * ui'.fontSize - 4 <= FontWanted8(mv.dy)
           /\ FontWanted8(mv.dy) < 8 * ui'.fontSize + 4
           /\ MIN_FONT_SIZE <= ui'.fontSize
           /\ ui'.fontSize <= MAX_FONT_SIZE
           /\ engine' = handlePointerMove(Machine, DownPos.x + mv.dx,
                                          DownPos.y, now).engine
           /\ calls' = <<>>]_vars

\* C36 witness: in a session opened at font 64, after an earlier drag-move, a
\* drag 75 px down and 20 px to the right has set the font to 32 (64 - 37.5
\* cut off at MIN_FONT_SIZE) and the target and the cruise to 440.
C36_Witness ==
    /\ lastOp = "move"
    /\ nEvents = 3
    /\ engine.isPlaying
    /\ dragRef.open
    /\ dragRef.startFontSize = INITIAL_FONT_SIZE
    /\ ui.fontSize = MIN_FONT_SIZE
    /\ engine.targetWPM = 440
    /\ engine.dragStartWPM = 440

====
